---- MODULE Spec2Model ----
(***************************************************************************)
(* A model of repo_visualizer.analyzer.RepositoryAnalyzer.                 *)
(*                                                                         *)
(* analyzer.py defines the methods of the class several times over; as     *)
(* Python binds the last definition of a name in a class body, the model   *)
(* follows the last definition of each method.                             *)
(*                                                                         *)
(* Paths and identifiers are strings, and the os.path functions are        *)
(* modelled on them character by character (posixpath).                    *)
(***************************************************************************)
EXTENDS Integers, Sequences, FiniteSets, TLC

VARIABLES
    disk,                 \* regular files of the repository (repo-relative paths)
    cwd,                  \* the process's working directory (absolute path)
    call,                 \* arguments of the resolver call under study
    result,               \* what that call returned
    file_ids,             \* self.file_ids: inventory, in insertion order
    relationships,        \* self.relationships
    relationship_counts,  \* self.relationship_counts
    data,                 \* self.data (files, relationships, history)
    callLog,              \* the calls under study made so far
    content,              \* what open(...).read() yields, per readable file
    unreadable,           \* the names os.walk lists that os.stat fails on
    gitignore_spec,       \* self.gitignore_spec: the patterns of .gitignore
    listing,              \* the order in which a directory lists its entries
    todo,                 \* the directories os.walk has still to yield
    dir_file_map,         \* dir_file_map of _analyze_files
    gitlog,               \* the output of git log read by _analyze_history
    history,              \* the commits of the repository, newest first
    attrs,                \* the names of the attributes __init__ has set on self
    pc                    \* where the analyzer stands

vars == <<disk, cwd, call, result, file_ids, relationships,
          relationship_counts, data, callLog, content, unreadable,
          gitignore_spec, listing, todo, dir_file_map, gitlog, history, attrs, pc>>

\* The repository, the rest of the environment and the attributes self
\* has: what no method writes once __init__ has returned
env == <<disk, cwd, content, unreadable, gitignore_spec, listing, history, attrs>>

-----------------------------------------------------------------------------
(* Strings                                                                 *)

\* The characters that occur in paths, in code point order.
Alphabet == "-./0123456789@ABCDEFGHIJKLMNOPQRSTUVWXYZ_abcdefghijklmnopqrstuvwxyz"

Ch(s, i) == SubSeq(s, i, i)

Ord(c) == CHOOSE i \in 1..Len(Alphabet) : Ch(Alphabet, i) = c

StartsWith(s, p) == Len(p) <= Len(s) /\ SubSeq(s, 1, Len(p)) = p

EndsWith(s, p) ==
    Len(p) <= Len(s) /\ SubSeq(s, Len(s) - Len(p) + 1, Len(s)) = p

\* s[n:] of Python, n counted from 0
Drop(s, n) == SubSeq(s, n + 1, Len(s))

\* str.rfind(c) + 1: the 1-based position of the last c, 0 when there is none
RECURSIVE RFind(_, _, _)
RFind(s, c, i) ==
    IF i = 0 THEN 0
    ELSE IF Ch(s, i) = c THEN i
    ELSE RFind(s, c, i - 1)

\* the 1-based position of the first c at or after i, 0 when there is none
RECURSIVE Find(_, _, _)
Find(s, c, i) ==
    IF i > Len(s) THEN 0
    ELSE IF Ch(s, i) = c THEN i
    ELSE Find(s, c, i + 1)

\* str.split(c) for a one-character separator
RECURSIVE Split(_, _)
Split(s, c) ==
    LET i == Find(s, c, 1)
    IN  IF i = 0 THEN <<s>>
        ELSE <<SubSeq(s, 1, i - 1)>> \o Split(Drop(s, i), c)

\* c.join(parts)
RECURSIVE JoinWith(_, _)
JoinWith(c, parts) ==
    IF parts = <<>> THEN ""
    ELSE IF Len(parts) = 1 THEN parts[1]
    ELSE parts[1] \o c \o JoinWith(c, Tail(parts))

\* str.lstrip(c) and str.rstrip(c)
RECURSIVE LStrip(_, _)
LStrip(s, c) == IF Len(s) > 0 /\ Ch(s, 1) = c THEN LStrip(Drop(s, 1), c) ELSE s

RECURSIVE RStrip(_, _)
RStrip(s, c) ==
    IF Len(s) > 0 /\ Ch(s, Len(s)) = c
    THEN RStrip(SubSeq(s, 1, Len(s) - 1), c)
    ELSE s

\* a < b in Python's ordering of str (code point by code point)
RECURSIVE StrLess(_, _)
StrLess(a, b) ==
    IF Len(b) = 0 THEN FALSE
    ELSE IF Len(a) = 0 THEN TRUE
    ELSE IF Ch(a, 1) = Ch(b, 1) THEN StrLess(Drop(a, 1), Drop(b, 1))
    ELSE Ord(Ch(a, 1)) < Ord(Ch(b, 1))

\* sorted((a, b))
SortedPair(a, b) == IF StrLess(b, a) THEN <<b, a>> ELSE <<a, b>>

-----------------------------------------------------------------------------
(* os.path (posixpath)                                                     *)

Dirname(p) ==
    LET i    == RFind(p, "/", Len(p))
        head == SubSeq(p, 1, i)
    IN  IF head # "" /\ RStrip(head, "/") # "" THEN RStrip(head, "/") ELSE head

Basename(p) == Drop(p, RFind(p, "/", Len(p)))

PathJoin2(a, b) ==
    IF StartsWith(b, "/") THEN b
    ELSE IF a = "" \/ EndsWith(a, "/") THEN a \o b
    ELSE a \o "/" \o b

RECURSIVE PathJoinFrom(_, _)
PathJoinFrom(a, rest) ==
    IF rest = <<>> THEN a ELSE PathJoinFrom(PathJoin2(a, Head(rest)), Tail(rest))

\* os.path.join(a, *rest)
PathJoin(parts) == PathJoinFrom(Head(parts), Tail(parts))

RECURSIVE NormComps(_, _, _)
NormComps(comps, new, rooted) ==
    IF comps = <<>> THEN new
    ELSE LET c == Head(comps)
         IN  IF c = "" \/ c = "." THEN NormComps(Tail(comps), new, rooted)
             ELSE IF c # ".."
                     \/ (~rooted /\ new = <<>>)
                     \/ (new # <<>> /\ new[Len(new)] = "..")
                  THEN NormComps(Tail(comps), Append(new, c), rooted)
             ELSE IF new # <<>>
                  THEN NormComps(Tail(comps), SubSeq(new, 1, Len(new) - 1), rooted)
             ELSE NormComps(Tail(comps), new, rooted)

NormPath(p) ==
    IF p = "" THEN "."
    ELSE LET rooted == StartsWith(p, "/")
             body   == JoinWith("/", NormComps(Split(p, "/"), <<>>, rooted))
             out    == IF rooted THEN "/" \o body ELSE body
         IN  IF out = "" THEN "." ELSE out

AbsPath(p) == NormPath(PathJoin2(cwd, p))

\* the components of an absolute path
PathList(p) == SelectSeq(Split(p, "/"), LAMBDA x : x # "")

RECURSIVE CommonLen(_, _)
CommonLen(a, b) ==
    IF a = <<>> \/ b = <<>> \/ Head(a) # Head(b) THEN 0
    ELSE 1 + CommonLen(Tail(a), Tail(b))

RelPath(p, start) ==
    LET Joined(rel) == IF rel = <<>> THEN "." ELSE JoinWith("/", rel)
        From(sl, pl, i) ==
            Joined([k \in 1..(Len(sl) - i) |-> ".."] \o SubSeq(pl, i + 1, Len(pl)))
        Between(sl, pl) == From(sl, pl, CommonLen(sl, pl))
    IN  Between(PathList(AbsPath(start)), PathList(AbsPath(p)))

-----------------------------------------------------------------------------
(* The relationship accumulator                                            *)

\* Bounds of the model
MaxCalls == 3

repo_path == "/repo"

RelTypes == {"contains", "import", "filesystem_proximity", "semantic_similarity"}

\* RelKey without the sorting of the endpoints
RelKeyAsGiven(source, target, type) == <<source, target, type>>

\* The key under which _add_relationship and _consolidate_relationships
\* count an edge: the endpoints are sorted for the two undirected types.
RelKey(source, target, type) ==
    IF type \in {"semantic_similarity", "filesystem_proximity"}
    THEN LET p == SortedPair(source, target) IN <<p[1], p[2], type>>
    ELSE <<source, target, type>>

\* dict[key] = value on a dict given as a function
DictSet(d, k, v) == [x \in (DOMAIN d) \cup {k} |-> IF x = k THEN v ELSE d[x]]

\* AddRelationship recording the edge on every call, counted or not
AddRelationshipAlwaysAppend(g, source, target, type) ==
    LET rel_key == RelKey(source, target, type)
    IN  [counts |-> DictSet(g.counts, rel_key,
                       IF rel_key \in DOMAIN g.counts THEN g.counts[rel_key] + 1 ELSE 1),
         rels   |-> Append(g.rels,
                       [source |-> source, target |-> target, type |-> type])]

\* The accumulator g is [counts |-> self.relationship_counts,
\*                       rels   |-> self.relationships].
AddRelationship(g, source, target, type) ==
    LET rel_key == RelKey(source, target, type)
    IN  IF rel_key \in DOMAIN g.counts
        THEN [g EXCEPT !.counts[rel_key] = @ + 1]
        ELSE [counts |-> DictSet(g.counts, rel_key, 1),
              rels   |-> Append(g.rels,
                           [source |-> source, target |-> target, type |-> type])]

ConsolidateRelationships(rels, counts) ==
    [i \in 1..Len(rels) |->
        LET rel     == rels[i]
            rel_key == RelKey(rel.source, rel.target, rel.type)
        IN  [source   |-> rel.source,
             target   |-> rel.target,
             type     |-> rel.type,
             strength |-> IF rel_key \in DOMAIN counts THEN counts[rel_key] ELSE 1]]

\* The ids of the inventory
FileIdKeys(ids) == {ids[i].id : i \in 1..Len(ids)}

NoMetrics == <<>>

\* An inventory entry as _analyze_files builds it for a directory
DirEntry(rel_path, dir_name) ==
    [id |-> rel_path, path |-> rel_path, name |-> dir_name, type |-> "directory",
     depth |-> Len(Split(rel_path, "/")) - 1, size |-> 0, metrics |-> NoMetrics,
     components |-> <<>>]

\* An inventory entry as _analyze_files builds it for a file
FileEntry(rel_path, file_name, size, metrics) ==
    [id |-> rel_path, path |-> rel_path, name |-> file_name, type |-> "file",
     depth |-> Len(Split(rel_path, "/")) - 1, size |-> size, metrics |-> metrics,
     components |-> <<>>]

\* Python's None, where a string is expected
None == "None"

\* create_empty_schema(), less the metadata
EmptyData == [files |-> <<>>, relationships |-> <<>>, history |-> None]

\* The attributes __init__ sets before its two checks, and after them. A
\* variable that stands for an attribute of self means that attribute only
\* once its name is in attrs.
PathAttrs == {"repo_path", "python_coverage_path", "frontend_coverage_path"}

StateAttrs == {"data", "file_ids", "relationships", "relationship_counts",
               "gitignore_spec", "_coverage_cache"}

\* bool(x) for an Optional[str]
Truthy(x) == x # None /\ x # ""

NoCall == [kind |-> "none"]

-----------------------------------------------------------------------------
(* The file system                                                         *)

\* os.path.exists: the repository holds the files of disk and the
\* directories above them; outside the repository only the ancestors of the
\* repository and the working directory exist. A name os.stat fails on does
\* not exist.
Exists(p) ==
    LET Held(r) == r \in disk \ unreadable \/ \E f \in disk : StartsWith(f, r \o "/")
        There(a) ==
            \/ a = "/"
            \/ a = repo_path
            \/ a = cwd
            \/ /\ StartsWith(a, repo_path \o "/")
               /\ Held(Drop(a, Len(repo_path) + 1))
    IN  There(AbsPath(p))

-----------------------------------------------------------------------------
(* Import resolution                                                       *)

RECURSIVE DirnameTimes(_, _)
DirnameTimes(p, n) == IF n <= 0 THEN p ELSE DirnameTimes(Dirname(p), n - 1)

\* "if os.path.exists(possible_path): return os.path.relpath(...)", three
\* times over: the module as a file, as a package, and, for a relative
\* import, as a file beside the importing file
ResolvePythonImport(import_name, file_path, level) ==
    LET Probe(possible_path, otherwise) ==
            IF Exists(possible_path) THEN RelPath(possible_path, repo_path)
            ELSE otherwise
        Probes(base_path, parts) ==
            Probe(PathJoin(<<repo_path, base_path>> \o parts) \o ".py",
              Probe(PathJoin(<<repo_path, base_path>> \o parts \o <<"__init__.py">>),
                IF level > 0
                THEN Probe(PathJoin(<<Dirname(file_path)>> \o parts) \o ".py", None)
                ELSE None))
    IN  Probes(IF level > 0 THEN DirnameTimes(Dirname(file_path), level - 1) ELSE "",
               Split(import_name, "."))

\* The suffixes _resolve_js_import tries, with .jsx before .ts
JsExtensionsJsxFirst ==
    <<".js", ".jsx", ".ts", ".tsx",
      "/index.js", "/index.jsx", "/index.ts", "/index.tsx">>

\* The suffixes _resolve_js_import tries, in its order
JsExtensions ==
    <<".js", ".ts", ".jsx", ".tsx",
      "/index.js", "/index.ts", "/index.jsx", "/index.tsx">>

\* "for ext in [...]: if resolved_path + ext in self.file_ids: return ...",
\* then resolved_path itself, then None
RECURSIVE ProbeJs(_, _, _)
ProbeJs(resolved_path, exts, ids) ==
    IF exts = <<>>
    THEN IF resolved_path \in FileIdKeys(ids) THEN resolved_path ELSE None
    ELSE IF (resolved_path \o Head(exts)) \in FileIdKeys(ids)
    THEN resolved_path \o Head(exts)
    ELSE ProbeJs(resolved_path, Tail(exts), ids)

\* ResolveJsImport taking every specifier for a path
ResolveJsImportAnySpecifier(import_path, file_path, ids) ==
    ProbeJs(NormPath(PathJoin2(Dirname(file_path), import_path)), JsExtensions, ids)

ResolveJsImport(import_path, file_path, ids) ==
    IF ~(StartsWith(import_path, ".") \/ StartsWith(import_path, "/")) THEN None
    ELSE ProbeJs(NormPath(IF StartsWith(import_path, "/")
                          THEN PathJoin2(repo_path, Drop(import_path, 1))
                          ELSE PathJoin2(Dirname(file_path), import_path)),
                 JsExtensions, ids)

-----------------------------------------------------------------------------
(* Direct use of the accumulator, as the unit tests drive it: an analyzer  *)
(* whose inventory holds a.py and b.py, and arbitrary _add_relationship    *)
(* and _consolidate_relationships calls.                                   *)

\* The endpoints the calls are made with: x.py is not in the inventory.
GraphPairs == {<<"a.py", "b.py">>, <<"b.py", "a.py">>,
               <<"a.py", "x.py">>, <<"x.py", "b.py">>}

GraphInit ==
    /\ disk = {"a.py", "b.py"}
    /\ cwd = repo_path
    /\ call = NoCall
    /\ result = None
    /\ file_ids = <<FileEntry("a.py", "a.py", 100, NoMetrics),
                    FileEntry("b.py", "b.py", 100, NoMetrics)>>
    /\ relationships = <<>>
    /\ relationship_counts = <<>>
    /\ data = EmptyData
    /\ callLog = <<>>
    /\ content = <<>>
    /\ unreadable = {}
    /\ gitignore_spec = <<>>
    /\ listing = "asc"
    /\ todo = <<>>
    /\ dir_file_map = <<>>
    /\ gitlog = <<>>
    /\ history = <<>>
    /\ attrs = PathAttrs \cup StateAttrs
    /\ pc = "graph"

CallAddRelationship ==
    /\ pc = "graph"
    /\ Len(callLog) < MaxCalls
    /\ \E p \in GraphPairs, type \in RelTypes :
          /\ LET g == AddRelationship(
                          [counts |-> relationship_counts, rels |-> relationships],
                          p[1], p[2], type)
             IN  /\ relationship_counts' = g.counts
                 /\ relationships' = g.rels
          /\ callLog' = Append(callLog,
                           [source |-> p[1], target |-> p[2], type |-> type])
    /\ UNCHANGED <<env, call, result, file_ids, data, todo, dir_file_map, gitlog, pc>>

CallConsolidate ==
    /\ pc = "graph"
    /\ data' = [data EXCEPT !.relationships =
                    ConsolidateRelationships(relationships, relationship_counts)]
    /\ pc' = "consolidated"
    /\ UNCHANGED <<env, call, result, file_ids, relationships,
                   relationship_counts, callLog, todo, dir_file_map, gitlog>>

GraphNext == CallAddRelationship \/ CallConsolidate

SpecGraph == GraphInit /\ [][GraphNext]_vars

-----------------------------------------------------------------------------
(* Properties of the accumulator                                           *)

SymmetricTypes == {"filesystem_proximity", "semantic_similarity"}

\* The canonical key of an edge, as the data model defines it: the unordered
\* pair of endpoints for a symmetric type, the ordered pair otherwise.
CanonKey(r) ==
    <<{r.source, r.target}, r.type,
      IF r.type \in SymmetricTypes THEN "" ELSE r.source>>

CallsFor(log, k) == {i \in 1..Len(log) : CanonKey(log[i]) = k}

\* The calls that were the first of their canonical key, in call order
FirstCalls(log) ==
    LET firsts == {i \in 1..Len(log) : \A j \in 1..(i - 1) :
                        CanonKey(log[j]) # CanonKey(log[i])}
    IN  [n \in 1..Cardinality(firsts) |->
            CHOOSE i \in firsts : Cardinality({j \in firsts : j < i}) = n - 1]

\* C2: _add_relationship leaves relationship_counts and relationships as they
\* are when its source or its target is not a key of file_ids.
C2_NoOpOnUnknownId ==
    [][(/\ Len(callLog') = Len(callLog) + 1
        /\ \/ callLog'[Len(callLog')].source \notin FileIdKeys(file_ids)
           \/ callLog'[Len(callLog')].target \notin FileIdKeys(file_ids))
       => UNCHANGED <<relationship_counts, relationships>>]_vars

\* C4: _add_relationship(A, B, t) followed by _add_relationship(B, A, t)
\* consolidates to a single relationship between A and B of strength 2 when
\* t is a symmetric type, and to two relationships, A -> B and B -> A, when
\* t is a directed type.
C4_SymmetricCanonicalization ==
    (/\ pc = "consolidated"
     /\ Len(callLog) = 2
     /\ callLog[2].type = callLog[1].type
     /\ callLog[2].source = callLog[1].target
     /\ callLog[2].target = callLog[1].source)
    => LET a   == callLog[1].source
           b   == callLog[1].target
           t   == callLog[1].type
           out == data.relationships
       IN  IF t \in SymmetricTypes
           THEN /\ Len(out) = 1
                /\ {out[1].source, out[1].target} = {a, b}
                /\ out[1].type = t
                /\ out[1].strength = 2
           ELSE /\ Len(out) = 2
                /\ out[1] = [source |-> a, target |-> b, type |-> t, strength |-> 1]
                /\ out[2] = [source |-> b, target |-> a, type |-> t, strength |-> 1]

C4_Witness ==
    /\ pc = "consolidated"
    /\ callLog = <<[source |-> "a.py", target |-> "b.py",
                    type |-> "filesystem_proximity"],
                   [source |-> "b.py", target |-> "a.py",
                    type |-> "filesystem_proximity"]>>
    /\ Len(data.relationships) = 1

\* C5: the relationships list and the keys of relationship_counts correspond
\* one to one at every point, and _consolidate_relationships emits one
\* relationship per canonical key, in the order in which the keys first
\* occurred, with the number of calls made for the key as its strength.
C5_OnePerKeyInOrder ==
    /\ Len(relationships) = Cardinality(DOMAIN relationship_counts)
    /\ \A i, j \in 1..Len(relationships) :
          CanonKey(relationships[i]) = CanonKey(relationships[j]) => i = j
    /\ {CanonKey(relationships[i]) : i \in 1..Len(relationships)}
         = {CanonKey([source |-> k[1], target |-> k[2], type |-> k[3]]) :
               k \in DOMAIN relationship_counts}
    /\ pc = "consolidated" =>
          LET firsts == FirstCalls(callLog)
          IN  /\ Len(data.relationships) = Len(firsts)
              /\ \A n \in 1..Len(firsts) :
                    LET c == callLog[firsts[n]]
                    IN  data.relationships[n] =
                          [source |-> c.source, target |-> c.target, type |-> c.type,
                           strength |-> Cardinality(CallsFor(callLog, CanonKey(c)))]

C5_Witness ==
    /\ pc = "consolidated"
    /\ Len(callLog) = 3
    /\ Len(data.relationships) = 2
    /\ data.relationships[1].strength = 1
    /\ data.relationships[2].strength = 2

-----------------------------------------------------------------------------
(* Direct calls of the resolver, as the unit tests make them, against a    *)
(* repository whose files are any subset of ResolveFiles.                  *)

MaxLevel == 2

ResolveFiles == {"src/utils/helpers.py", "src/utils/models/user.py",
                 "src/models/user.py", "src/models/__init__.py",
                 "src/models.py", "utils/helpers.py", "models/user.py"}

ResolveNames == {"utils.helpers", "models.user", "models", "..models.user"}

ResolveImporters == {"src/main.py", "src/utils/helpers.py"}

ResolveInit ==
    /\ disk \in SUBSET ResolveFiles
    /\ cwd \in {repo_path, "/home"}
    /\ call \in [kind : {"python"}, import_name : ResolveNames,
                 file_path : ResolveImporters, level : 0..MaxLevel]
    /\ result = None
    /\ file_ids = <<>>
    /\ relationships = <<>>
    /\ relationship_counts = <<>>
    /\ data = EmptyData
    /\ callLog = <<>>
    /\ content = <<>>
    /\ unreadable = {}
    /\ gitignore_spec = <<>>
    /\ listing = "asc"
    /\ todo = <<>>
    /\ dir_file_map = <<>>
    /\ gitlog = <<>>
    /\ history = <<>>
    /\ attrs = PathAttrs \cup StateAttrs
    /\ pc = "resolve"

CallResolvePython ==
    /\ pc = "resolve"
    /\ call.kind = "python"
    /\ result' = ResolvePythonImport(call.import_name, call.file_path, call.level)
    /\ pc' = "resolved"
    /\ UNCHANGED <<env, call, file_ids, relationships, relationship_counts,
                   data, callLog, todo, dir_file_map, gitlog>>

ResolveNext == CallResolvePython

SpecResolve == ResolveInit /\ [][ResolveNext]_vars

-----------------------------------------------------------------------------
(* Properties of the Python resolver                                       *)

\* The module file of dotted name m under the repository directory base:
\* <base>/<m as a path>.py, else <base>/<m as a path>/__init__.py, else None.
ModuleUnder(base, m) ==
    LET stem == IF base = "" THEN JoinWith("/", Split(m, "."))
                ELSE base \o "/" \o JoinWith("/", Split(m, "."))
    IN  IF (stem \o ".py") \in disk THEN stem \o ".py"
        ELSE IF (stem \o "/__init__.py") \in disk THEN stem \o "/__init__.py"
        ELSE None

LeadingDots(name) == Len(name) - Len(LStrip(name, "."))

\* C9: an absolute dotted module name imported from file f resolves to the
\* module file found from the repository root and, when there is none, to
\* the one found from f's own directory.
C9_AbsoluteImportLocalFallback ==
    (pc = "resolved" /\ call.level = 0 /\ LeadingDots(call.import_name) = 0)
    => result = IF ModuleUnder("", call.import_name) # None
                THEN ModuleUnder("", call.import_name)
                ELSE ModuleUnder(Dirname(call.file_path), call.import_name)

\* C10: a relative import of L >= 1 leading dots and remainder m from file f
\* resolves to the module file of m under the directory L - 1 levels above
\* f's directory, and to nothing when there is no such file.  The dots are
\* given either as the level argument or, as the unit test does, in the name.
C10_RelativeImportResolution ==
    (/\ pc = "resolved"
     /\ \/ call.level >= 1 /\ LeadingDots(call.import_name) = 0
        \/ call.level = 0 /\ LeadingDots(call.import_name) >= 1)
    => LET L == call.level + LeadingDots(call.import_name)
           m == LStrip(call.import_name, ".")
       IN  result = ModuleUnder(DirnameTimes(Dirname(call.file_path), L - 1), m)

-----------------------------------------------------------------------------
(* The inventory walk: _analyze_files                                      *)

\* str.lower()
RECURSIVE Lower(_)
Lower(s) ==
    IF s = "" THEN ""
    ELSE LET c == Ch(s, 1)
             o == Ord(c)
         IN  (IF o >= Ord("A") /\ o <= Ord("Z")
              THEN Ch(Alphabet, o + (Ord("a") - Ord("A")))
              ELSE c) \o Lower(Drop(s, 1))

\* os.path.splitext(name)[1]
SplitExt(name) ==
    LET sep == RFind(name, "/", Len(name))
        dot == RFind(name, ".", Len(name))
    IN  IF dot > sep /\ \E k \in (sep + 1)..(dot - 1) : Ch(name, k) # "."
        THEN Drop(name, dot - 1)
        ELSE ""

\* The set S as a sequence in ascending order of str
RECURSIVE SortSet(_)
SortSet(S) ==
    IF S = {} THEN <<>>
    ELSE LET m == CHOOSE x \in S : \A y \in S : ~StrLess(y, x)
         IN  <<m>> \o SortSet(S \ {m})

Reverse(q) == [i \in 1..Len(q) |-> q[Len(q) + 1 - i]]

InOrder(S) == IF listing = "asc" THEN SortSet(S) ELSE Reverse(SortSet(S))

\* The names os.walk lists for the directory rel_root ("" is the repository)
\* of the repository: its subdirectories and its files.
Below(rel_root) ==
    IF rel_root = "" THEN disk
    ELSE {Drop(f, Len(rel_root) + 1) :
            f \in {x \in disk : StartsWith(x, rel_root \o "/")}}

ListDirs(rel_root) ==
    InOrder({Split(r, "/")[1] : r \in {x \in Below(rel_root) : Find(x, "/", 1) > 0}})

ListFiles(rel_root) ==
    InOrder({x \in Below(rel_root) : Find(x, "/", 1) = 0})

always_ignore == {".git", "node_modules", ".venv", "venv", "__pycache__",
                  ".pytest_cache", "build", "dist", ".next", ".nuxt", "coverage",
                  ".coverage", "*.egg-info", ".tox", ".nox", "vendor",
                  ".DS_Store", "Thumbs.db"}

\* fnmatch.fnmatch(part, pattern) for the one pattern of always_ignore that
\* holds a star, "*.egg-info"
FnMatch(part, pattern) ==
    /\ StartsWith(pattern, "*")
    /\ EndsWith(part, Drop(pattern, 1))

\* PathSpec.match_file for the gitwildmatch patterns of the form "name/", a
\* directory of that name at any depth and everything below it, and of the
\* form "name" or "*suffix", a file or directory of such a name at any depth
\* and everything below it.
MatchFile(spec, norm_path) ==
    \E i \in 1..Len(spec) :
        LET pat == spec[i]
        IN  \/ /\ EndsWith(pat, "/")
               /\ \/ StartsWith(norm_path, pat)
                  \/ \E k \in 1..Len(norm_path) :
                        /\ Ch(norm_path, k) = "/"
                        /\ StartsWith(Drop(norm_path, k), pat)
            \/ /\ ~EndsWith(pat, "/")
               /\ \E k \in 1..Len(Split(norm_path, "/")) :
                     IF StartsWith(pat, "*")
                     THEN EndsWith(Split(norm_path, "/")[k], Drop(pat, 1))
                     ELSE Split(norm_path, "/")[k] = pat

IsIgnored(path, is_directory) ==
    LET path_parts == Split(path, "/")
        norm_path  == IF is_directory /\ ~EndsWith(path, "/")
                      THEN path \o "/" ELSE path
        parts      == Split(norm_path, "/")
    IN  \/ \E i \in 1..Len(path_parts) :
              \/ path_parts[i] \in always_ignore
              \/ \E pat \in always_ignore : FnMatch(path_parts[i], pat)
        \/ MatchFile(gitignore_spec, norm_path)
        \/ /\ ~is_directory
           /\ Find(norm_path, "/", 1) > 0
           /\ \E i \in 1..(Len(parts) - 1) :
                 MatchFile(gitignore_spec,
                           JoinWith("/", SubSeq(parts, 1, i)) \o "/")

\* self.file_ids[key] = entry: a dict keeps the place of a key it holds
IdsSet(ids, key, entry) ==
    IF key \in FileIdKeys(ids)
    THEN [i \in 1..Len(ids) |-> IF ids[i].id = key THEN entry ELSE ids[i]]
    ELSE Append(ids, entry)

\* os.path.getsize
FileSize(rel_path) == 10 * Len(rel_path)

----
\* Import statements, as ast.parse gives them: an Import node carries the
\* dotted names imported, an ImportFrom node the module (None for
\* "from . import x"), the level and the names imported from it.

\* The analysis state the walk threads through its steps:
\* [ids |-> self.file_ids, g |-> the accumulator, dfm |-> dir_file_map]

HandleImportFromAlias(st, module, file_path, level, alias) ==
    LET Added(target) == [st EXCEPT !.g = AddRelationship(@, file_path, target, "import")]
        Member(resolved_path, imported_file) ==
            IF imported_file \in FileIdKeys(st.ids)
            THEN Added(imported_file)
            ELSE Added(resolved_path)
        Handle(resolved_path) ==
            IF ~Truthy(resolved_path) THEN st
            ELSE IF Basename(resolved_path) = "__init__.py"
            THEN Member(resolved_path,
                        PathJoin(<<Dirname(resolved_path), alias \o ".py">>))
            ELSE Added(resolved_path)
    IN  Handle(ResolvePythonImport(module, file_path, level))

RECURSIVE ImportAliases(_, _, _)
ImportAliases(st, names, file_path) ==
    IF names = <<>> THEN st
    ELSE LET Handle(resolved_path) ==
                 IF Truthy(resolved_path)
                 THEN [st EXCEPT !.g = AddRelationship(@, file_path, resolved_path, "import")]
                 ELSE st
         IN  ImportAliases(Handle(ResolvePythonImport(Head(names), file_path, 0)),
                           Tail(names), file_path)

RECURSIVE ImportFromAliases(_, _, _, _, _)
ImportFromAliases(st, module, file_path, level, names) ==
    IF names = <<>> THEN st
    ELSE ImportFromAliases(
             HandleImportFromAlias(st, module, file_path, level, Head(names)),
             module, file_path, level, Tail(names))

RECURSIVE ExtractPythonImports(_, _, _)
ExtractPythonImports(st, stmts, file_path) ==
    IF stmts = <<>> THEN st
    ELSE LET node == Head(stmts)
             next == IF node.kind = "Import"
                     THEN ImportAliases(st, node.names, file_path)
                     ELSE IF node.kind = "ImportFrom" /\ Truthy(node.module)
                     THEN ImportFromAliases(st, node.module, file_path,
                                            node.level, node.names)
                     ELSE st
         IN  ExtractPythonImports(next, Tail(stmts), file_path)

\* The text of a JS/TS file is the module specifiers import_pattern finds
\* in it, in order
RECURSIVE ExtractJsImports(_, _, _)
ExtractJsImports(st, import_paths, file_path) ==
    IF import_paths = <<>> THEN st
    ELSE LET Handle(resolved_path) ==
                 IF Head(import_paths) # "" /\ Truthy(resolved_path)
                 THEN [st EXCEPT !.g = AddRelationship(@, file_path, resolved_path, "import")]
                 ELSE st
         IN  ExtractJsImports(
                 Handle(ResolveJsImport(Head(import_paths), file_path, st.ids)),
                 Tail(import_paths), file_path)

\* ast.walk(tree): the nodes breadth first, the statements of the module,
\* then the statements of their bodies. A function or class definition is
\* [kind, name, body]; another statement has no body.
RECURSIVE AstWalk(_)
AstWalk(todo_nodes) ==
    IF todo_nodes = <<>> THEN <<>>
    ELSE <<Head(todo_nodes)>>
           \o AstWalk(Tail(todo_nodes)
                        \o IF Head(todo_nodes).kind \in {"FunctionDef", "ClassDef"}
                           THEN Head(todo_nodes).body ELSE <<>>)

\* The component _analyze_python_file appends for a node (lineStart and
\* lineEnd left out)
ComponentOf(node, file_path) ==
    IF node.kind = "FunctionDef"
    THEN [id |-> file_path \o ":" \o node.name, name |-> node.name,
          type |-> "function"]
    ELSE [id |-> file_path \o ":" \o node.name, name |-> node.name,
          type |-> "class", components |-> <<>>]

\* _analyze_python_file: the components of a parsed module
AnalyzePythonFile(stmts, file_path) ==
    LET Defs(nodes) ==
            SelectSeq(nodes, LAMBDA node : node.kind \in {"FunctionDef", "ClassDef"})
        Components(defs) == [k \in 1..Len(defs) |-> ComponentOf(defs[k], file_path)]
    IN  Components(Defs(AstWalk(stmts)))

\* file_info["components"] of _analyze_file_content; the text of a JS/TS
\* file is taken to define no function and no class
FileComponents(stmts, file_path, extension) ==
    IF extension = "py" THEN AnalyzePythonFile(stmts, file_path) ELSE <<>>

ExtractFileRelationships(st, stmts, file_path, extension) ==
    IF extension = "py" THEN ExtractPythonImports(st, AstWalk(stmts), file_path)
    ELSE IF extension \in {"js", "ts", "jsx", "tsx"}
    THEN ExtractJsImports(st, stmts, file_path)
    ELSE st

\* metrics of _analyze_file_content: the text of a file is its top-level
\* statements, one a line
ContentMetrics(stmts) ==
    <<[linesOfCode |-> Len(stmts), emptyLines |-> 0, commentLines |-> 0]>>

\* ProcessDir registering the contains edge of a directory twice
ProcessDirLinkedTwice(st, root, dir_name) ==
    LET Link(rel_path, ids1, dfm1, parent_dir) ==
            IF parent_dir # "" /\ parent_dir \in FileIdKeys(ids1)
            THEN [ids |-> ids1,
                  g   |-> AddRelationship(
                              AddRelationship(st.g, parent_dir, rel_path, "contains"),
                              parent_dir, rel_path, "contains"),
                  dfm |-> IF parent_dir \in DOMAIN dfm1
                          THEN [dfm1 EXCEPT ![parent_dir] = Append(@, rel_path)]
                          ELSE dfm1]
            ELSE [ids |-> ids1, g |-> st.g, dfm |-> dfm1]
        Enter(rel_path) ==
            IF StartsWith(rel_path, "..") THEN st
            ELSE Link(rel_path,
                      IdsSet(st.ids, rel_path, DirEntry(rel_path, dir_name)),
                      DictSet(st.dfm, rel_path, <<>>),
                      Dirname(rel_path))
    IN  Enter(RelPath(PathJoin(<<root, dir_name>>), repo_path))

\* One directory name of the "for dir_name in dirs" loop
ProcessDir(st, root, dir_name) ==
    LET Link(rel_path, ids1, dfm1, parent_dir) ==
            IF parent_dir # "" /\ parent_dir \in FileIdKeys(ids1)
            THEN [ids |-> ids1,
                  g   |-> AddRelationship(st.g, parent_dir, rel_path, "contains"),
                  dfm |-> IF parent_dir \in DOMAIN dfm1
                          THEN [dfm1 EXCEPT ![parent_dir] = Append(@, rel_path)]
                          ELSE dfm1]
            ELSE [ids |-> ids1, g |-> st.g, dfm |-> dfm1]
        Enter(rel_path) ==
            IF StartsWith(rel_path, "..") THEN st
            ELSE Link(rel_path,
                      IdsSet(st.ids, rel_path, DirEntry(rel_path, dir_name)),
                      DictSet(st.dfm, rel_path, <<>>),
                      Dirname(rel_path))
    IN  Enter(RelPath(PathJoin(<<root, dir_name>>), repo_path))

\* ProcessFile without the contains edge from the parent directory
ProcessFileUnlinked(st, rel_root, file_name) ==
    LET Enter(rel_path, st1, file_entry) ==
            [st1 EXCEPT !.ids = IdsSet(st1.ids, rel_path, file_entry)]
        Analyze(rel_path, readable) ==
            Enter(rel_path,
                  IF readable
                  THEN ExtractFileRelationships(
                           st, content[rel_path], rel_path,
                           Lower(LStrip(SplitExt(file_name), ".")))
                  ELSE st,
                  [FileEntry(rel_path, file_name, FileSize(rel_path),
                             IF readable THEN ContentMetrics(content[rel_path])
                             ELSE NoMetrics)
                      EXCEPT !.components =
                          IF readable
                          THEN FileComponents(content[rel_path], rel_path,
                                   Lower(LStrip(SplitExt(file_name), ".")))
                          ELSE <<>>])
        Visit(rel_path) ==
            IF StartsWith(file_name, ".") THEN st
            ELSE IF IsIgnored(rel_path, FALSE) THEN st
            ELSE IF rel_path \in unreadable THEN st
            ELSE Analyze(rel_path, rel_path \in DOMAIN content)
    IN  Visit(PathJoin(<<rel_root, file_name>>))

\* One file name of the "for file_name in file_names" loop
\* The entry is skipped when its name is hidden, when it is ignored and
\* when os.path.getsize fails; a file that cannot be read is inventoried
\* without metrics and without relationships of its own.
ProcessFile(st, rel_root, file_name) ==
    LET Link(rel_path, st1, ids1, parent_dir) ==
            IF parent_dir # "" /\ parent_dir \in DOMAIN st1.dfm
            THEN [ids |-> ids1,
                  g   |-> AddRelationship(st1.g, parent_dir, rel_path, "contains"),
                  dfm |-> [st1.dfm EXCEPT ![parent_dir] = Append(@, rel_path)]]
            ELSE [st1 EXCEPT !.ids = ids1]
        Enter(rel_path, st1, file_entry) ==
            Link(rel_path, st1, IdsSet(st1.ids, rel_path, file_entry),
                 Dirname(rel_path))
        Analyze(rel_path, readable) ==
            Enter(rel_path,
                  IF readable
                  THEN ExtractFileRelationships(
                           st, content[rel_path], rel_path,
                           Lower(LStrip(SplitExt(file_name), ".")))
                  ELSE st,
                  [FileEntry(rel_path, file_name, FileSize(rel_path),
                             IF readable THEN ContentMetrics(content[rel_path])
                             ELSE NoMetrics)
                      EXCEPT !.components =
                          IF readable
                          THEN FileComponents(content[rel_path], rel_path,
                                   Lower(LStrip(SplitExt(file_name), ".")))
                          ELSE <<>>])
        Visit(rel_path) ==
            IF StartsWith(file_name, ".") THEN st
            ELSE IF IsIgnored(rel_path, FALSE) THEN st
            ELSE IF rel_path \in unreadable THEN st
            ELSE Analyze(rel_path, rel_path \in DOMAIN content)
    IN  Visit(PathJoin(<<rel_root, file_name>>))

RECURSIVE ProcessDirs(_, _, _)
ProcessDirs(st, root, dirs) ==
    IF dirs = <<>> THEN st
    ELSE ProcessDirs(ProcessDir(st, root, Head(dirs)), root, Tail(dirs))

RECURSIVE ProcessFiles(_, _, _)
ProcessFiles(st, rel_root, file_names) ==
    IF file_names = <<>> THEN st
    ELSE ProcessFiles(ProcessFile(st, rel_root, Head(file_names)),
                      rel_root, Tail(file_names))

\* A filter of dirs that drops the hidden directories only
FilterDirsHiddenOnly(rel_root, dirs) ==
    SelectSeq(dirs, LAMBDA dir_name : ~StartsWith(dir_name, "."))

\* The in-place filter of dirs: hidden and ignored directories are dropped,
\* and os.walk does not descend into them
FilterDirs(rel_root, dirs) ==
    SelectSeq(dirs, LAMBDA dir_name :
        ~(\/ StartsWith(dir_name, ".")
          \/ IsIgnored(PathJoin(<<rel_root, dir_name>>), TRUE)))

\* What os.walk yields for the entry w of todo: the listing of the
\* directory, or the tuple of a patched os.walk
WalkDirs(w, rel_root) == IF w.mock THEN w.dirs ELSE ListDirs(rel_root)
WalkFiles(w, rel_root) == IF w.mock THEN w.files ELSE ListFiles(rel_root)

\* One iteration of "for root, dirs, file_names in os.walk(self.repo_path)";
\* when os.walk is exhausted _analyze_files returns, _extract_relationships
\* does nothing, and analyze goes on to _analyze_history.
WalkStep ==
    /\ pc = "walk"
    /\ todo # <<>>
    /\ LET w   == Head(todo)
           st0 == [ids |-> file_ids,
                   g   |-> [counts |-> relationship_counts, rels |-> relationships],
                   dfm |-> dir_file_map]
       IN  \E rel \in {RelPath(w.root, repo_path)} :
           \E rel_root \in {IF rel = "." THEN "" ELSE rel} :
           \E dirs \in {FilterDirs(rel_root, WalkDirs(w, rel_root))} :
           \E st2 \in {ProcessFiles(ProcessDirs(st0, w.root, dirs), rel_root,
                                    WalkFiles(w, rel_root))} :
              /\ file_ids' = st2.ids
              /\ relationship_counts' = st2.g.counts
              /\ relationships' = st2.g.rels
              /\ dir_file_map' = st2.dfm
              /\ todo' = IF w.mock THEN Tail(todo)
                         ELSE [i \in 1..Len(dirs) |->
                                  [root |-> PathJoin(<<w.root, dirs[i]>>),
                                   mock |-> FALSE]]
                              \o Tail(todo)
              /\ pc' = IF todo' = <<>> THEN "history" ELSE "walk"
    /\ UNCHANGED <<env, call, result, data, callLog, gitlog>>

-----------------------------------------------------------------------------
(* _analyze_history and the end of analyze                                 *)

Digits == "0123456789"

\* int(s) for a string of decimal digits
RECURSIVE ParseInt(_, _)
ParseInt(s, acc) ==
    IF s = "" THEN acc
    ELSE ParseInt(Drop(s, 1),
                  10 * acc + (CHOOSE d \in 0..9 : Ch(Digits, d + 1) = Ch(s, 1)))

\* str.split(): the words of a line
Words(line) == SelectSeq(Split(line, " "), LAMBDA x : x # "")

\* metrics["lastModified"] = ...; metrics["commitCount"] = ... + 1 on the
\* inventory entry of file_path, when it has one and its metrics are not empty
TouchMetrics(ids, file_path, timestamp) ==
    [i \in 1..Len(ids) |->
        IF ids[i].id # file_path THEN ids[i]
        ELSE LET held == IF ids[i].metrics = NoMetrics THEN <<>>
                         ELSE ids[i].metrics[1]
             IN  IF DOMAIN held = {}
                 THEN [ids[i] EXCEPT !.metrics = <<held>>]
                 ELSE [ids[i] EXCEPT !.metrics =
                          <<DictSet(DictSet(held, "lastModified", timestamp),
                                    "commitCount",
                                    IF "commitCount" \in DOMAIN held
                                    THEN held["commitCount"] + 1 ELSE 1)>>]]

\* One line of the log; h is [ids |-> self.file_ids,
\*                            ts  |-> current_commit_timestamp]
HistoryLine(h, line) ==
    IF StartsWith(line, "commit:")
    THEN LET parts == Words(line)
         IN  IF Len(parts) >= 3 THEN [h EXCEPT !.ts = ParseInt(parts[3], 0)] ELSE h
    ELSE IF line = "" THEN h
    ELSE LET parts == Split(line, "\t")
         IN  IF Len(parts) < 2 THEN h
             ELSE LET file_path == IF StartsWith(parts[1], "R")
                                   THEN parts[3] ELSE parts[2]
                  IN  [h EXCEPT !.ids = TouchMetrics(@, file_path, h.ts)]

RECURSIVE HistoryLines(_, _)
HistoryLines(h, lines) ==
    IF lines = <<>> THEN h
    ELSE HistoryLines(HistoryLine(h, Head(lines)), Tail(lines))

\* str(n) for n >= 0
RECURSIVE IntStr(_)
IntStr(n) ==
    IF n < 10 THEN Ch(Digits, n + 1)
    ELSE IntStr(n \div 10) \o Ch(Digits, (n % 10) + 1)

\* The lines git prints for one commit: the formatted line, then a line per
\* changed path, "<status>\t<path>" or "R<score>\t<old path>\t<new path>"
CommitLines(c) ==
    <<"commit:" \o c.hash \o " " \o IntStr(c.at)>>
      \o [i \in 1..Len(c.changes) |-> JoinWith("\t", c.changes[i])]

\* The output of "git log --name-status --pretty=format:commit:%H %at":
\* the commits newest first, an empty line between two commits
RECURSIVE LogOf(_)
LogOf(commits) ==
    IF commits = <<>> THEN <<>>
    ELSE IF Len(commits) = 1 THEN CommitLines(commits[1])
    ELSE CommitLines(commits[1]) \o <<"">> \o LogOf(Tail(commits))

GitLogs == {LogOf(history)}

\* A history of two commits: the first added every file of the repository,
\* the second modified a.py.
TwoCommits(files) ==
    <<[hash |-> "c2", at |-> 200, changes |-> <<<<"M", "a.py">>>>],
      [hash |-> "c1", at |-> 100,
       changes |-> [i \in 1..Len(files) |-> <<"A", files[i]>>]]>>

\* An _analyze_history that lets the failure of git escape
AnalyzeHistoryAborts ==
    /\ pc = "history"
    /\ \/ /\ UNCHANGED <<file_ids, gitlog>>
          /\ pc' = "aborted"
       \/ \E log \in GitLogs :
             /\ gitlog' = log
             /\ file_ids' = HistoryLines([ids |-> file_ids, ts |-> 0], log).ids
             /\ pc' = "finalize"
    /\ UNCHANGED <<env, call, result, relationships, relationship_counts, data,
                   callLog, todo, dir_file_map>>

AnalyzeHistory ==
    /\ pc = "history"
    /\ \/ \* git fails: CalledProcessError or FileNotFoundError
          UNCHANGED <<file_ids, gitlog>>
       \/ \E log \in GitLogs :
             /\ gitlog' = log
             /\ file_ids' = HistoryLines([ids |-> file_ids, ts |-> 0], log).ids
    /\ pc' = "finalize"
    /\ UNCHANGED <<env, call, result, relationships, relationship_counts, data,
                   callLog, todo, dir_file_map>>

\* self.data["files"] = list(self.file_ids.values());
\* self._consolidate_relationships(); return self.data
Finalize ==
    /\ pc = "finalize"
    /\ data' = [data EXCEPT
                    !.files = file_ids,
                    !.relationships =
                        ConsolidateRelationships(relationships, relationship_counts)]
    /\ pc' = "done"
    /\ UNCHANGED <<env, call, result, file_ids, relationships, relationship_counts,
                   callLog, todo, dir_file_map, gitlog>>

-----------------------------------------------------------------------------
(* analyze() over a repository                                             *)

MaxStmts == 2

Import(names) == [kind |-> "Import", module |-> None, level |-> 0, names |-> names]

ImportFrom(module, level, names) ==
    [kind |-> "ImportFrom", module |-> module, level |-> level, names |-> names]

FunctionDef(name, body) == [kind |-> "FunctionDef", name |-> name, body |-> body]

ClassDef(name, body) == [kind |-> "ClassDef", name |-> name, body |-> body]

\* The import statements a.py is made of
Stmts == {Import(<<"b">>),
          ImportFrom("b", 0, <<"x", "y">>),
          Import(<<"build.gen">>),
          ImportFrom("pkg", 0, <<"m">>)}

Contents == UNION {[1..n -> Stmts] : n \in 0..MaxStmts}

\* Every repository holds .git and a.py, and any of these groups of files;
\* one that holds the package pkg may hold a .gitignore that names it.
RepoUnits == {{"b.py"}, {"build/gen.py"}, {"pkg/__init__.py", "pkg/m.py"},
              {"src/main.py", "src/utils/helpers.py"}}

GitignoreUnits(units) ==
    IF {"pkg/__init__.py", "pkg/m.py"} \in units THEN {{}, {".gitignore"}} ELSE {{}}

\* The tuples the unit tests patch os.walk with
MockWalks ==
    {<<[root |-> "/repo", dirs |-> <<>>, files |-> <<>>, mock |-> TRUE],
       [root |-> "/repo/deeply/nested/dir", dirs |-> <<>>,
        files |-> <<"test.py">>, mock |-> TRUE]>>,
     <<[root |-> "/repo", dirs |-> <<"src", "docs">>, files |-> <<>>, mock |-> TRUE],
       [root |-> "/repo/src", dirs |-> <<"utils">>,
        files |-> <<"main.py">>, mock |-> TRUE],
       [root |-> "/repo/src/utils", dirs |-> <<>>,
        files |-> <<"helpers.py">>, mock |-> TRUE],
       [root |-> "/repo/docs", dirs |-> <<>>,
        files |-> <<"README.md">>, mock |-> TRUE]>>}

\* The analyzer as __init__ leaves it
Constructed ==
    /\ cwd = repo_path
    /\ call = NoCall
    /\ result = None
    /\ file_ids = <<>>
    /\ relationships = <<>>
    /\ relationship_counts = <<>>
    /\ data = EmptyData
    /\ callLog = <<>>
    /\ dir_file_map = <<>>
    /\ gitlog = <<>>
    /\ attrs = PathAttrs \cup StateAttrs
    /\ pc = "walk"

Init ==
    /\ Constructed
    /\ \/ /\ \E units \in SUBSET RepoUnits :
                \E ignore \in GitignoreUnits(units) :
                    disk = {".git/HEAD", "a.py"} \cup UNION units \cup ignore
          /\ \E files \in {SortSet(disk)} : history = TwoCommits(files)
          /\ \E c \in Contents :
                content = [f \in disk |-> IF f = "a.py" THEN c ELSE <<>>]
          /\ unreadable \in SUBSET (disk \cap {"b.py"})
          /\ gitignore_spec = IF ".gitignore" \in disk THEN <<"pkg/">> ELSE <<>>
          /\ listing \in {"asc", "desc"}
          /\ todo = <<[root |-> repo_path, mock |-> FALSE]>>
       \/ /\ disk = {}
          /\ history = TwoCommits(<<>>)
          /\ content = <<>>
          /\ unreadable = {}
          /\ gitignore_spec = <<>>
          /\ listing = "asc"
          /\ todo \in MockWalks

Next == WalkStep \/ AnalyzeHistory \/ Finalize

Spec == Init /\ [][Next]_vars

-----------------------------------------------------------------------------
(* analyze() over the repositories of the end-to-end scenario: a.py and    *)
(* b.py at the root, with or without c.py, a module json.py that shadows   *)
(* the standard library, and a binary file.                                *)

ScenarioOptional == {"c.py", "json.py", "logo.png"}

\* What a.py holds: one or two of "import b" and "import json"
ScenarioContents ==
    UNION {[1..n -> {Import(<<"b">>), Import(<<"json">>)}] : n \in 1..2}

\* c.py holds "from . import b"; open(...).read() of the binary file raises
\* UnicodeDecodeError, so it has no content
ScenarioContent(files, c) ==
    [f \in files \ {"logo.png"} |->
        IF f = "a.py" THEN c
        ELSE IF f = "c.py" THEN <<ImportFrom(None, 1, <<"b">>)>>
        ELSE <<>>]

\* Commit 1 adds a.py and b.py, commit 2 adds c.py
ScenarioTwoCommits ==
    <<[hash |-> "c2", at |-> 200, changes |-> <<<<"A", "c.py">>>>],
      [hash |-> "c1", at |-> 100, changes |-> <<<<"A", "a.py">>, <<"A", "b.py">>>>]>>

\* Commit 1 adds a.py, lib.py and logo.png; commit 2 adds c.py and json.py
\* and modifies a.py and logo.png; commit 3 renames lib.py to b.py and
\* modifies a.py
ScenarioThreeCommits ==
    <<[hash |-> "c3", at |-> 300,
       changes |-> <<<<"R100", "lib.py", "b.py">>, <<"M", "a.py">>>>],
      [hash |-> "c2", at |-> 200,
       changes |-> <<<<"A", "c.py">>, <<"A", "json.py">>, <<"M", "a.py">>,
                     <<"M", "logo.png">>>>],
      [hash |-> "c1", at |-> 100,
       changes |-> <<<<"A", "a.py">>, <<"A", "lib.py">>, <<"A", "logo.png">>>>]>>

ScenarioInit ==
    /\ Constructed
    /\ \E optional \in SUBSET ScenarioOptional :
          disk = {".git/HEAD", "a.py", "b.py"} \cup optional
    /\ \E c \in ScenarioContents : content = ScenarioContent(disk, c)
    /\ unreadable = {}
    /\ gitignore_spec = <<>>
    /\ listing \in {"asc", "desc"}
    /\ todo = <<[root |-> repo_path, mock |-> FALSE]>>
    /\ history \in {ScenarioTwoCommits, ScenarioThreeCommits}

SpecScenario == ScenarioInit /\ [][Next]_vars

\* A second analyze() on the same instance, over the same repository: the
\* walk starts again with a fresh dir_file_map, while self.file_ids,
\* self.relationships and self.relationship_counts are the ones the first
\* run left. call remembers that the first run is over and what git
\* printed for it, result is what the first run returned.
AnalyzeAgain ==
    /\ pc = "done"
    /\ call = NoCall
    /\ call' = [kind |-> "analyze", run |-> 2, gitlog |-> gitlog]
    /\ result' = data
    /\ todo' = <<[root |-> repo_path, mock |-> FALSE]>>
    /\ dir_file_map' = <<>>
    /\ gitlog' = <<>>
    /\ pc' = "walk"
    /\ UNCHANGED <<env, file_ids, relationships, relationship_counts, data,
                   callLog>>

TwiceNext == Next \/ AnalyzeAgain

SpecTwice == ScenarioInit /\ [][TwiceNext]_vars

-----------------------------------------------------------------------------
(* analyze() over a repository whose a.py defines functions and classes    *)

MaxNodes == 2

\* The statements a.py is made of: an import, a function, a function that
\* defines a function, a class with two methods, a class without body
PyNodes == {Import(<<"b">>),
            FunctionDef("f", <<>>),
            FunctionDef("g", <<FunctionDef("h", <<>>)>>),
            ClassDef("C", <<FunctionDef("m1", <<>>), FunctionDef("m2", <<>>)>>),
            ClassDef("D", <<>>)}

ComponentsInit ==
    /\ Constructed
    /\ \E optional \in SUBSET {"b.py"} : disk = {".git/HEAD", "a.py"} \cup optional
    /\ history = TwoCommits(<<"a.py">>)
    /\ \E n \in 0..MaxNodes : \E c \in [1..n -> PyNodes] :
          content = [f \in disk |-> IF f = "a.py" THEN c ELSE <<>>]
    /\ unreadable = {}
    /\ gitignore_spec = <<>>
    /\ listing \in {"asc", "desc"}
    /\ todo = <<[root |-> repo_path, mock |-> FALSE]>>

SpecComponents == ComponentsInit /\ [][Next]_vars

-----------------------------------------------------------------------------
(* analyze() over a repository whose importing files and their targets     *)
(* stand in one directory or in sibling directories, so that the order of  *)
(* a listing decides which is walked first                                 *)

MaxSpecifiers == 2

\* The module specifiers src/main.js imports
OrderSpecifiers == {"./utils", "./utils.js", "react"}

\* What src/app.py holds
OrderStmts == {ImportFrom("lib", 0, <<"mod">>), Import(<<"lib.mod">>)}

OrderJsUnit == {"src/main.js", "src/utils.js"}

OrderPyUnit == {"src/app.py", "lib/__init__.py", "lib/mod.py"}

OrderInit ==
    /\ Constructed
    /\ \E units \in SUBSET {OrderJsUnit, OrderPyUnit} :
          disk = {".git/HEAD", "README.md"} \cup UNION units
    /\ history = TwoCommits(<<>>)
    /\ \E n \in 1..MaxSpecifiers : \E js \in [1..n -> OrderSpecifiers] :
          \E py \in OrderStmts :
             content = [f \in disk |-> IF f = "src/main.js" THEN js
                                       ELSE IF f = "src/app.py" THEN <<py>>
                                       ELSE <<>>]
    /\ unreadable = {}
    /\ gitignore_spec = <<>>
    /\ listing \in {"asc", "desc"}
    /\ todo = <<[root |-> repo_path, mock |-> FALSE]>>

SpecOrder == OrderInit /\ [][Next]_vars

-----------------------------------------------------------------------------
(* analyze() over repositories that hold hidden, always-ignored and        *)
(* gitignored files and directories                                        *)

IgnoreUnits == {{".env"}, {".cache/x.py"}, {"node_modules/lib/i.py"},
                {"lib.egg-info/z.py"}, {"pkg/m.py", "pkg/sub/n.py"},
                {"src/pkg/o.py", "src/b.py"}, {"b.py", "should.ignore"}}

\* The patterns a .gitignore of the repository may hold
IgnoreSpecs == {<<>>, <<"pkg/">>, <<"b.py">>, <<"pkg/", "b.py">>,
                <<"*.ignore", "pkg/">>}

IgnoreInit ==
    /\ Constructed
    /\ \E units \in SUBSET IgnoreUnits : disk = {".git/HEAD", "a.py"} \cup UNION units
    /\ history = TwoCommits(<<>>)
    /\ content = [f \in disk |-> <<>>]
    /\ unreadable = {}
    /\ gitignore_spec \in IgnoreSpecs
    /\ listing \in {"asc", "desc"}
    /\ todo = <<[root |-> repo_path, mock |-> FALSE]>>

SpecIgnore == IgnoreInit /\ [][Next]_vars

-----------------------------------------------------------------------------
(* Calls of the JS/TS resolver and of the JS/TS import extraction          *)

JsFiles == {"src/utils.js", "src/components/index.js", "lib/helper.ts",
            "src/x.jsx", "src/x.ts", "src/index.js"}

\* Directories the walk may have inventoried
JsDirs == {"src", "src/components"}

JsSpecifiers == {"./utils", "./utils.js", "./components", "../lib/helper", "./x",
                 "/src/utils", "/lib/helper", ".", "..", "react", "@babel/core",
                 "utils"}

JsImporters == {"src/main.js", "src/components/Button.jsx"}

\* self.file_ids holding the given ids
JsInventory(ids) ==
    [i \in 1..Len(ids) |->
        IF ids[i] \in JsDirs THEN DirEntry(ids[i], Basename(ids[i]))
        ELSE FileEntry(ids[i], Basename(ids[i]), FileSize(ids[i]), NoMetrics)]

ResolveJsInit ==
    /\ disk = {}
    /\ cwd = repo_path
    /\ call \in [kind : {"js"}, import_name : JsSpecifiers, file_path : JsImporters]
    /\ result = None
    /\ \E ids \in SUBSET (JsFiles \cup JsDirs) : file_ids = JsInventory(SortSet(ids))
    /\ relationships = <<>>
    /\ relationship_counts = <<>>
    /\ data = EmptyData
    /\ callLog = <<>>
    /\ content = <<>>
    /\ unreadable = {}
    /\ gitignore_spec = <<>>
    /\ listing = "asc"
    /\ todo = <<>>
    /\ dir_file_map = <<>>
    /\ gitlog = <<>>
    /\ history = <<>>
    /\ attrs = PathAttrs \cup StateAttrs
    /\ pc = "resolve"

CallResolveJs ==
    /\ pc = "resolve"
    /\ call.kind = "js"
    /\ result' = ResolveJsImport(call.import_name, call.file_path, file_ids)
    /\ pc' = "resolved"
    /\ UNCHANGED <<env, call, file_ids, relationships, relationship_counts,
                   data, callLog, todo, dir_file_map, gitlog>>

\* _extract_js_imports on a text holding the one specifier of the call
CallExtractJs ==
    /\ pc = "resolve"
    /\ call.kind = "js"
    /\ \E st \in {ExtractJsImports(
                      [ids |-> file_ids,
                       g |-> [counts |-> relationship_counts, rels |-> relationships],
                       dfm |-> dir_file_map],
                      <<call.import_name>>, call.file_path)} :
          /\ relationships' = st.g.rels
          /\ relationship_counts' = st.g.counts
    /\ pc' = "extracted"
    /\ UNCHANGED <<env, call, result, file_ids, data, callLog, todo,
                   dir_file_map, gitlog>>

ResolveJsNext == CallResolveJs \/ CallExtractJs

SpecResolveJs == ResolveJsInit /\ [][ResolveJsNext]_vars

-----------------------------------------------------------------------------
(* RepositoryAnalyzer(repo_path), then analyze()                           *)

\* os.path.isdir of an absolute path: the root, the working directory, the
\* repository directory and the directories above a file of the repository
IsDir(a) ==
    \/ a = "/"
    \/ a = cwd
    \/ a = repo_path
    \/ /\ StartsWith(a, repo_path \o "/")
       /\ \E f \in disk : StartsWith(f, Drop(a, Len(repo_path) + 1) \o "/")

\* The message of the ValueError __init__ raises, None when it raises none
InitError(path) ==
    IF ~IsDir(AbsPath(path))
    THEN "Repository path does not exist: " \o AbsPath(path)
    ELSE IF ~IsDir(PathJoin2(AbsPath(path), ".git"))
    THEN "Not a git repository: " \o AbsPath(path)
    ELSE None

\* An __init__ that builds the analysis state first and checks afterwards
InitAttrsEager(error) == PathAttrs \cup StateAttrs

\* The attributes self has when __init__ returns or raises
InitAttrs(error) ==
    IF error = None THEN PathAttrs \cup StateAttrs ELSE PathAttrs

ConstructPaths == {"/repo", ".", "/missing", "/repo/a.py", "/repo/pkg"}

ConstructInit ==
    /\ \E optional \in SUBSET {".git/HEAD", "b.py", "pkg/m.py", ".gitignore"} :
          disk = {"a.py"} \cup optional
    /\ \E files \in {SortSet(disk)} : history = TwoCommits(files)
    /\ cwd \in {repo_path, "/home"}
    /\ call \in [kind : {"init"}, repo_path : ConstructPaths]
    /\ result = None
    /\ file_ids = <<>>
    /\ relationships = <<>>
    /\ relationship_counts = <<>>
    /\ data = EmptyData
    /\ callLog = <<>>
    /\ content = [f \in disk |-> IF f = "a.py" THEN <<Import(<<"b">>)>> ELSE <<>>]
    /\ unreadable = {}
    /\ gitignore_spec = IF ".gitignore" \in disk THEN <<"pkg/">> ELSE <<>>
    /\ listing \in {"asc", "desc"}
    /\ todo = <<[root |-> repo_path, mock |-> FALSE]>>
    /\ dir_file_map = <<>>
    /\ gitlog = <<>>
    /\ attrs = {}
    /\ pc = "new"

\* RepositoryAnalyzer.__init__: returns, or raises ValueError
Construct ==
    /\ pc = "new"
    /\ call.kind = "init"
    /\ \E error \in {InitError(call.repo_path)} :
          /\ attrs' = InitAttrs(error)
          /\ result' = error
          /\ pc' = IF error = None THEN "walk" ELSE "raised"
    /\ UNCHANGED <<disk, cwd, content, unreadable, gitignore_spec, listing,
                   history, call, file_ids, relationships, relationship_counts,
                   data, callLog, todo, dir_file_map, gitlog>>

ConstructNext == Construct \/ WalkStep \/ AnalyzeHistory \/ Finalize

SpecConstruct == ConstructInit /\ [][ConstructNext]_vars

-----------------------------------------------------------------------------
(* cli.main                                                                *)

\* The parameters of analyze_repository
AnalyzeRepositoryParams == {"repo_path", "output_path", "python_coverage_path",
                            "frontend_coverage_path"}

\* The arguments main passes to analyze_repository: two positional ones and
\* two by keyword
MainArgs == {"repo_path", "output_path", "enable_github", "github_token"}

\* Python raises TypeError for a keyword argument the function does not have
BindError(params, args) == IF args \subseteq params THEN None ELSE "TypeError"

\* A validation that does not look at the output directory
MainValidationRepoOnly(path, output) ==
    IF ~IsDir(AbsPath(path))
    THEN "Repository path does not exist: " \o AbsPath(path)
    ELSE IF ~IsDir(PathJoin2(AbsPath(path), ".git"))
    THEN "Not a git repository: " \o AbsPath(path)
    ELSE None

\* The error main logs before it returns 1 without analysing, None when the
\* repository path and the output path pass
MainValidation(path, output) ==
    IF ~IsDir(AbsPath(path))
    THEN "Repository path does not exist: " \o AbsPath(path)
    ELSE IF ~IsDir(PathJoin2(AbsPath(path), ".git"))
    THEN "Not a git repository: " \o AbsPath(path)
    ELSE IF Dirname(output) # "" /\ ~IsDir(AbsPath(Dirname(output)))
    THEN "Output directory does not exist: " \o Dirname(output)
    ELSE None

MainOutputs == {"repo_data.json", "out/data.json", "/missing/data.json",
                "/repo/data.json"}

MainInit ==
    /\ \E optional \in SUBSET {".git/HEAD", "out/old.json"} :
          disk = {"a.py"} \cup optional
    /\ history = TwoCommits(<<"a.py">>)
    /\ cwd \in {repo_path, "/home"}
    /\ call \in [kind : {"main"}, repo_path : ConstructPaths, output : MainOutputs]
    /\ result = None
    /\ file_ids = <<>>
    /\ relationships = <<>>
    /\ relationship_counts = <<>>
    /\ data = EmptyData
    /\ callLog = <<>>
    /\ content = [f \in disk |-> <<>>]
    /\ unreadable = {}
    /\ gitignore_spec = <<>>
    /\ listing = "asc"
    /\ todo = <<[root |-> repo_path, mock |-> FALSE]>>
    /\ dir_file_map = <<>>
    /\ gitlog = <<>>
    /\ attrs = {}
    /\ pc = "cli"

\* main(args): the validations, then analyze_repository(repo_path,
\* output_path, enable_github=..., github_token=...) inside try/except
\* Exception. The call raises TypeError before analyze_repository runs, so
\* main returns 1; were the arguments accepted, the analysis would start.
Main ==
    /\ pc = "cli"
    /\ call.kind = "main"
    /\ \E invalid \in {MainValidation(call.repo_path, call.output)} :
          IF invalid # None
          THEN /\ result' = 1
               /\ callLog' = callLog
               /\ pc' = "exited"
          ELSE \E raised \in {BindError(AnalyzeRepositoryParams, MainArgs)} :
                  /\ callLog' = Append(callLog, [kind |-> "analyze_repository",
                                                 args |-> MainArgs,
                                                 raised |-> raised])
                  /\ result' = IF raised # None THEN 1 ELSE None
                  /\ pc' = IF raised # None THEN "exited" ELSE "new"
    /\ UNCHANGED <<env, call, file_ids, relationships, relationship_counts, data,
                   todo, dir_file_map, gitlog>>

MainNext == Main

SpecMain == MainInit /\ [][MainNext]_vars

-----------------------------------------------------------------------------
(* _update_directory_sizes, which the unit tests call                      *)

RECURSIVE SumSizes(_, _)
SumSizes(ids, children) ==
    IF children = <<>> THEN 0
    ELSE (IF Head(children) \in FileIdKeys(ids)
          THEN (CHOOSE e \in {ids[i] : i \in 1..Len(ids)} : e.id = Head(children)).size
          ELSE 0)
         + SumSizes(ids, Tail(children))

\* The directories of one depth: their sizes become the sums of the sizes
\* of the children dir_file_map lists for them
SizeLevel(ids, dfm, depth) ==
    [i \in 1..Len(ids) |->
        IF ids[i].type = "directory" /\ ids[i].depth = depth
        THEN [ids[i] EXCEPT !.size =
                 IF ids[i].path \in DOMAIN dfm
                 THEN SumSizes(ids, dfm[ids[i].path]) ELSE 0]
        ELSE ids[i]]

\* The directories are taken deepest first
RECURSIVE SizeLevels(_, _, _)
SizeLevels(ids, dfm, depth) ==
    IF depth < 0 THEN ids
    ELSE SizeLevels(SizeLevel(ids, dfm, depth), dfm, depth - 1)

MaxDepthOf(ids) ==
    IF ids = <<>> THEN 0
    ELSE CHOOSE d \in {ids[i].depth : i \in 1..Len(ids)} :
            \A i \in 1..Len(ids) : ids[i].depth <= d

UpdateDirectorySizes(ids, dfm) == SizeLevels(ids, dfm, MaxDepthOf(ids))

-----------------------------------------------------------------------------
(* Properties of analyze()                                                 *)

\* The commits of history whose change list names path, a rename under its
\* new path
CommitsNaming(path) ==
    {k \in 1..Len(history) :
        \E n \in 1..Len(history[k].changes) :
            history[k].changes[n][Len(history[k].changes[n])] = path}

\* metrics[key] of an inventory entry, absent when it has no such metric
MetricOf(entry, key, absent) ==
    IF entry.metrics = NoMetrics THEN absent
    ELSE IF key \in DOMAIN entry.metrics[1] THEN entry.metrics[1][key]
    ELSE absent

Entries(ids) == {ids[i] : i \in 1..Len(ids)}

ContainsOf(rels, id) ==
    {i \in 1..Len(rels) : rels[i].type = "contains" /\ rels[i].target = id}

\* C1: when analyze() has returned, the source and the target of every
\* relationship of data["relationships"] are ids of entries of data["files"].
C1_NoDanglingEdges ==
    pc = "done" =>
        \A i \in 1..Len(data.relationships) :
            /\ data.relationships[i].source \in FileIdKeys(data.files)
            /\ data.relationships[i].target \in FileIdKeys(data.files)

\* The files one import statement of file s resolves to, over the final
\* inventory
StmtTargets(stmt, s) ==
    IF stmt.kind = "Import"
    THEN {ResolvePythonImport(stmt.names[i], s, 0) : i \in 1..Len(stmt.names)}
            \ {None}
    ELSE IF ~Truthy(stmt.module) THEN {}
    ELSE LET r == ResolvePythonImport(stmt.module, s, stmt.level)
         IN  IF r = None THEN {}
             ELSE IF Basename(r) # "__init__.py" THEN {r}
             ELSE {IF (Dirname(r) \o "/" \o stmt.names[i] \o ".py")
                         \in FileIdKeys(data.files)
                   THEN Dirname(r) \o "/" \o stmt.names[i] \o ".py"
                   ELSE r : i \in 1..Len(stmt.names)}

ImportEdges(s, t) ==
    {i \in 1..Len(data.relationships) :
        /\ data.relationships[i].type = "import"
        /\ data.relationships[i].source = s
        /\ data.relationships[i].target = t}

\* C3: when file s holds N >= 1 import statements that resolve to file t,
\* the output holds exactly one import relationship from s to t, and its
\* strength is N.
C3_ImportStrengthCountsStatements ==
    pc = "done" =>
        \A s \in FileIdKeys(data.files) \cap DOMAIN content :
            \A t \in UNION {StmtTargets(content[s][i], s) : i \in 1..Len(content[s])} :
                LET N == Cardinality({i \in 1..Len(content[s]) :
                                         t \in StmtTargets(content[s][i], s)})
                IN  /\ Cardinality(ImportEdges(s, t)) = 1
                    /\ \A i \in ImportEdges(s, t) : data.relationships[i].strength = N

ParentInventoriedBefore(i) ==
    \E j \in 1..(i - 1) :
        /\ file_ids[j].type = "directory"
        /\ file_ids[j].id = Dirname(file_ids[i].id)

C7_ParentsBackFilled ==
    pc # "walk" =>
        \A e \in Entries(file_ids) :
            Dirname(e.id) # "" =>
                /\ \E d \in Entries(file_ids) :
                      d.type = "directory" /\ d.id = Dirname(e.id)
                /\ \E i \in ContainsOf(relationships, e.id) :
                      relationships[i].source = Dirname(e.id)

RECURSIVE SumOf(_, _)
SumOf(f, S) ==
    IF S = {} THEN 0
    ELSE LET x == CHOOSE y \in S : TRUE IN f[x] + SumOf(f, S \ {x})

\* The sizes of the file entries below directory d, added up
SizeBelow(ids, d) ==
    LET below == {i \in 1..Len(ids) :
                     ids[i].type = "file" /\ StartsWith(ids[i].path, d \o "/")}
    IN  SumOf([i \in below |-> ids[i].size], below)

\* C8: when analyze() has returned, the size of every directory entry is the
\* sum of the sizes of the file entries below it, at any depth, and
\* _update_directory_sizes leaves every size as it is.
C8_DirectorySizes ==
    pc = "done" =>
        /\ \A e \in Entries(data.files) :
              e.type = "directory" => e.size = SizeBelow(data.files, e.id)
        /\ UpdateDirectorySizes(data.files, dir_file_map) = data.files

C26_GitFailureDegrades ==
    /\ [][(pc = "history" /\ gitlog' = <<>>)
            => /\ pc' = "finalize"
               /\ UNCHANGED <<file_ids, relationships, relationship_counts>>]_vars
    /\ []((pc = "done" /\ gitlog = <<>>)
            => /\ data.files = file_ids
               /\ \A i \in 1..Len(file_ids) :
                     MetricOf(file_ids[i], "commitCount", 0) = 0
               /\ data.relationships =
                     ConsolidateRelationships(relationships, relationship_counts))

\* C26 witness: analyze() has returned files and relationships although git
\* failed
C26_Witness ==
    /\ pc = "done"
    /\ gitlog = <<>>
    /\ data.files # <<>>
    /\ data.relationships # <<>>

-----------------------------------------------------------------------------
(* Properties of analyze() over the scenario repositories                  *)

\* Module names of the standard library
StdlibModules == {"json", "os", "sys"}

\* C11: an import of a standard-library module adds no import relationship,
\* also when the repository holds a file of that name at its root: no import
\* relationship of the output targets the module file of such a name.
C11_StdlibImportsAddNoEdge ==
    pc = "done" =>
        \A i \in 1..Len(data.relationships) :
            data.relationships[i].type = "import" =>
                data.relationships[i].target \notin
                    {m \o ".py" : m \in StdlibModules}
                      \cup {m \o "/__init__.py" : m \in StdlibModules}

\* C15: with a.py holding "import b", b.py, and c.py holding
\* "from . import b" at the root, the output holds an import relationship
\* a.py -> b.py of strength at least 1 and an import relationship
\* c.py -> b.py.
C15_EndToEndImportEdges ==
    (/\ pc = "done"
     /\ {"a.py", "b.py", "c.py"} \subseteq disk
     /\ \E k \in 1..Len(content["a.py"]) : content["a.py"][k] = Import(<<"b">>))
    => /\ \E i \in ImportEdges("a.py", "b.py") : data.relationships[i].strength >= 1
       /\ ImportEdges("c.py", "b.py") # {}

-----------------------------------------------------------------------------
(* Properties of the order of the walk                                     *)

\* The import relationships of the document
ImportsOf(rels) ==
    {[source |-> rels[i].source, target |-> rels[i].target,
      strength |-> rels[i].strength] :
        i \in {i \in 1..Len(rels) : rels[i].type = "import"}}

\* The import relationships the repository yields when every target is
\* walked before the file that imports it: src/main.js imports
\* src/utils.js once per specifier that names it, src/app.py imports
\* lib/mod.py
ImportsTargetsFirst ==
    (IF "src/main.js" \in disk
        /\ \E k \in 1..Len(content["src/main.js"]) :
              content["src/main.js"][k] \in {"./utils", "./utils.js"}
     THEN {[source |-> "src/main.js", target |-> "src/utils.js",
            strength |-> Cardinality({k \in 1..Len(content["src/main.js"]) :
                            content["src/main.js"][k] \in {"./utils", "./utils.js"}})]}
     ELSE {})
    \cup
    (IF "src/app.py" \in disk
     THEN {[source |-> "src/app.py", target |-> "lib/mod.py", strength |-> 1]}
     ELSE {})

\* C27: the import relationships of the document and their strengths do
\* not depend on the order of the walk: whichever of an importing file and
\* its target is walked first, they are those the repository yields when
\* the target is walked first.
C27_ImportsIndependentOfWalkOrder ==
    pc = "done" => ImportsOf(data.relationships) = ImportsTargetsFirst

-----------------------------------------------------------------------------
(* Properties of the components                                            *)

\* The function and class definitions among nodes
DefsOf(nodes) ==
    SelectSeq(nodes, LAMBDA node : node.kind \in {"FunctionDef", "ClassDef"})

\* The inventory entry of a.py
EntryOfA == file_ids[CHOOSE i \in 1..Len(file_ids) : file_ids[i].id = "a.py"]

\* C24: the components of a Python file are its top-level functions and
\* classes, in order, and the components of a class are its methods, with
\* id "<file>:<Class>.<method>"; a method is no component of the file.
C24_ComponentsNestMethods ==
    (pc # "walk" /\ "a.py" \in FileIdKeys(file_ids))
    => LET tops == DefsOf(content["a.py"])
           comps == EntryOfA.components
       IN  /\ Len(comps) = Len(tops)
           /\ \A k \in 1..Len(comps) :
                 /\ comps[k].id = "a.py:" \o tops[k].name
                 /\ tops[k].kind = "ClassDef"
                      => /\ comps[k].type = "class"
                         /\ Len(comps[k].components) = Len(DefsOf(tops[k].body))
                         /\ \A n \in 1..Len(comps[k].components) :
                               comps[k].components[n].id =
                                   "a.py:" \o tops[k].name \o "."
                                      \o DefsOf(tops[k].body)[n].name

\* C25: for every component of a file of the document, the document's
\* files hold a node with the component's id and its relationships a
\* contains relationship from the file to the component.
C25_ComponentNodesAndEdges ==
    pc = "done" =>
        \A i \in 1..Len(data.files) : \A k \in 1..Len(data.files[i].components) :
            /\ \E n \in 1..Len(data.files) :
                  data.files[n].id = data.files[i].components[k].id
            /\ \E r \in 1..Len(data.relationships) :
                  /\ data.relationships[r].type = "contains"
                  /\ data.relationships[r].source = data.files[i].id
                  /\ data.relationships[r].target = data.files[i].components[k].id

-----------------------------------------------------------------------------
(* Properties of the history analysis                                      *)

\* The paths existing after the changes of one commit
RECURSIVE ApplyChanges(_, _)
ApplyChanges(existing, changes) ==
    IF changes = <<>> THEN existing
    ELSE LET ch == Head(changes)
         IN  ApplyChanges(
                 IF ch[1] = "D" THEN existing \ {ch[2]}
                 ELSE IF StartsWith(ch[1], "R") THEN (existing \ {ch[2]}) \cup {ch[3]}
                 ELSE existing \cup {ch[2]},
                 Tail(changes))

\* The paths existing as of the commit at position k of history (newest
\* first), replayed from the oldest commit
RECURSIVE ExistingAt(_)
ExistingAt(k) ==
    IF k > Len(history) THEN {}
    ELSE ApplyChanges(ExistingAt(k + 1), history[k].changes)

\* C16: for a repository with at least one commit the output holds timeline
\* points of strictly increasing commit index, the first at the oldest
\* commit and the last at the newest.
C16_TimelineMonotone ==
    (pc = "done" /\ gitlog # <<>> /\ history # <<>>)
    => /\ data.history # None
       /\ LET tl == data.history.timelinePoints
          IN  /\ tl # <<>>
              /\ \A i, j \in 1..Len(tl) :
                    i < j => tl[i].state.commitIndex < tl[j].state.commitIndex
              /\ tl[1].commitId = history[Len(history)].hash
              /\ tl[Len(tl)].commitId = history[1].hash

\* C17: the snapshot of every timeline point holds exactly the finalized
\* relationships whose endpoints exist as of its commit, and in the
\* two-commit scenario the output has a point at commit 1 whose snapshot
\* holds a.py and b.py and not c.py, holds the edge a.py -> b.py and no
\* edge touching c.py.
C17_SnapshotRelationships ==
    (pc = "done" /\ gitlog # <<>> /\ history = ScenarioTwoCommits
       /\ "c.py" \in disk /\ content["a.py"][1] = Import(<<"b">>))
    => /\ data.history # None
       /\ LET tl == data.history.timelinePoints
              Rels(p) == {p.snapshot.relationships[i] :
                             i \in 1..Len(p.snapshot.relationships)}
              Files(p) == {p.snapshot.files[i].id : i \in 1..Len(p.snapshot.files)}
          IN  /\ \A n \in 1..Len(tl) : \A k \in 1..Len(history) :
                    tl[n].commitId = history[k].hash =>
                        Rels(tl[n]) =
                            {data.relationships[i] : i \in
                                {i \in 1..Len(data.relationships) :
                                    /\ data.relationships[i].source \in ExistingAt(k)
                                    /\ data.relationships[i].target \in ExistingAt(k)}}
              /\ \E n \in 1..Len(tl) :
                    /\ tl[n].commitId = "c1"
                    /\ {"a.py", "b.py"} \subseteq Files(tl[n])
                    /\ "c.py" \notin Files(tl[n])
                    /\ \E r \in Rels(tl[n]) :
                          r.source = "a.py" /\ r.target = "b.py" /\ r.type = "import"
                    /\ \A r \in Rels(tl[n]) : r.source # "c.py" /\ r.target # "c.py"

\* C18: after _analyze_history has read the log, commitCount of every
\* inventoried file is the number of commits that name its path (no
\* commitCount standing for 0).
C18_CommitCountPerFile ==
    (pc \in {"finalize", "done"} /\ gitlog # <<>>)
    => \A i \in 1..Len(file_ids) :
          file_ids[i].type = "file" =>
              MetricOf(file_ids[i], "commitCount", 0)
                  = Cardinality(CommitsNaming(file_ids[i].id))

\* C19: after _analyze_history has read the log, lastModified of every
\* inventoried file some commit names is the timestamp of the newest such
\* commit.
C19_LastModifiedIsNewestCommit ==
    (pc \in {"finalize", "done"} /\ gitlog # <<>>)
    => \A i \in 1..Len(file_ids) :
          (file_ids[i].type = "file" /\ CommitsNaming(file_ids[i].id) # {})
          => \E k \in CommitsNaming(file_ids[i].id) :
                /\ \A n \in CommitsNaming(file_ids[i].id) : history[n].at <= history[k].at
                /\ MetricOf(file_ids[i], "lastModified", -1) = history[k].at

-----------------------------------------------------------------------------
(* Properties of the JS/TS resolver                                        *)

\* The path a relative specifier names, normalized against the importing
\* file's directory
JsBase(import_path, file_path) ==
    NormPath(Dirname(file_path) \o "/" \o import_path)

\* The inventoried ids base + suffix, as positions of the suffix in order
JsHits(order, base) ==
    {i \in 1..Len(order) : (base \o order[i]) \in FileIdKeys(file_ids)}

\* The candidate that comes first in order, None when there is none
FirstCandidate(order, base) ==
    IF JsHits(order, base) = {} THEN None
    ELSE base \o order[CHOOSE i \in JsHits(order, base) :
                            \A j \in JsHits(order, base) : i <= j]

OrderJsTs == <<".js", ".ts", ".jsx", ".tsx",
               "/index.js", "/index.ts", "/index.jsx", "/index.tsx">>

OrderJsJsx == <<".js", ".jsx", ".ts", ".tsx",
                "/index.js", "/index.jsx", "/index.ts", "/index.tsx">>

ExtensionlessRelative(import_path) ==
    /\ StartsWith(import_path, "./") \/ StartsWith(import_path, "../")
    /\ SplitExt(import_path) = ""

\* C12: a relative specifier without extension resolves to an inventoried
\* file made of the normalized path and one of the suffixes, and to nothing
\* when the inventory holds no such file.
C12_ExtensionInference ==
    (pc = "resolved" /\ ExtensionlessRelative(call.import_name))
    => LET base == JsBase(call.import_name, call.file_path)
       IN  IF JsHits(OrderJsTs, base) = {}
           THEN result = None
           ELSE result \in {base \o OrderJsTs[i] : i \in JsHits(OrderJsTs, base)}

\* C13 as stated: of several inventoried candidates the resolver returns the
\* first in the order .js, .jsx, .ts, .tsx, /index.js, /index.jsx,
\* /index.ts, /index.tsx.
C13_FirstInOrderJsJsxTsTsx ==
    (/\ pc = "resolved"
     /\ ExtensionlessRelative(call.import_name)
     /\ Cardinality(JsHits(OrderJsJsx, JsBase(call.import_name, call.file_path))) >= 2)
    => result = FirstCandidate(OrderJsJsx, JsBase(call.import_name, call.file_path))

\* C13 amended: of several inventoried candidates the resolver returns the
\* first in the order .js, .ts, .jsx, .tsx, /index.js, /index.ts,
\* /index.jsx, /index.tsx.
C13_FirstInOrderJsTsJsxTsx ==
    (/\ pc = "resolved"
     /\ ExtensionlessRelative(call.import_name)
     /\ Cardinality(JsHits(OrderJsTs, JsBase(call.import_name, call.file_path))) >= 2)
    => result = FirstCandidate(OrderJsTs, JsBase(call.import_name, call.file_path))

\* C13 witness: "./x" from src/main.js with src/x.jsx and src/x.ts
\* inventoried has been resolved to src/x.ts
C13_Witness ==
    /\ pc = "resolved"
    /\ call.import_name = "./x"
    /\ call.file_path = "src/main.js"
    /\ {"src/x.jsx", "src/x.ts"} \subseteq FileIdKeys(file_ids)
    /\ result = "src/x.ts"

\* C14 as stated: a specifier that does not start with "./", "../" or "/"
\* resolves to nothing and adds no import relationship.
C14_BareNotDotSlash ==
    (/\ ~StartsWith(call.import_name, "./")
     /\ ~StartsWith(call.import_name, "../")
     /\ ~StartsWith(call.import_name, "/"))
    => /\ pc = "resolved" => result = None
       /\ pc = "extracted" => relationships = <<>> /\ relationship_counts = <<>>

\* C14 amended: a specifier that does not start with "." or "/" resolves to
\* nothing and adds no import relationship.
C14_BareResolvesToNothing ==
    (/\ ~StartsWith(call.import_name, ".")
     /\ ~StartsWith(call.import_name, "/"))
    => /\ pc = "resolved" => result = None
       /\ pc = "extracted" => relationships = <<>> /\ relationship_counts = <<>>

\* C14 witness: the bare specifier "utils" has gone through
\* _extract_js_imports of src/main.js with src/utils.js inventoried
C14_Witness ==
    /\ pc = "extracted"
    /\ call.import_name = "utils"
    /\ call.file_path = "src/main.js"
    /\ "src/utils.js" \in FileIdKeys(file_ids)
    /\ relationships = <<>>

\* C30: a specifier that starts with "/" resolves from the repository root:
\* to an inventoried file made of the specifier less its "/" and one of the
\* suffixes, whenever the inventory holds such a file, whatever the
\* importing file.
C30_RootSpecifierResolvesFromRoot ==
    (/\ pc = "resolved"
     /\ StartsWith(call.import_name, "/")
     /\ JsHits(OrderJsTs, Drop(call.import_name, 1)) # {})
    => result \in {Drop(call.import_name, 1) \o OrderJsTs[i] :
                      i \in JsHits(OrderJsTs, Drop(call.import_name, 1))}

-----------------------------------------------------------------------------
(* Properties of the constructor                                           *)

\* No analysis state has been created and no file walked
NothingCreated ==
    /\ attrs \cap StateAttrs = {}
    /\ file_ids = <<>>
    /\ dir_file_map = <<>>
    /\ relationships = <<>>

\* C20: when repo_path is not an existing directory the constructor has
\* raised ValueError "Repository path does not exist", when it is one without
\* a .git directory ValueError "Not a git repository", in both cases with no
\* analysis state (data, file_ids, relationship_counts, gitignore patterns)
\* created and no file walked.
C20_RaisesBeforeAnyState ==
    (pc # "new" /\ call.kind = "init")
    => /\ ~IsDir(AbsPath(call.repo_path))
          => /\ pc = "raised"
             /\ result = "Repository path does not exist: " \o AbsPath(call.repo_path)
             /\ NothingCreated
       /\ (IsDir(AbsPath(call.repo_path))
             /\ ~IsDir(AbsPath(call.repo_path) \o "/.git"))
          => /\ pc = "raised"
             /\ result = "Not a git repository: " \o AbsPath(call.repo_path)
             /\ NothingCreated

\* C20 witness: the constructor has raised "Not a git repository" for a
\* directory that holds files and no .git
C20_Witness ==
    /\ pc = "raised"
    /\ call.repo_path = "/repo"
    /\ {"a.py", "b.py"} \subseteq disk
    /\ result = "Not a git repository: /repo"
    /\ attrs = PathAttrs

-----------------------------------------------------------------------------
(* Properties of cli.main                                                  *)

\* The repository path is a directory that holds a .git directory
IsGitRepository ==
    /\ IsDir(AbsPath(call.repo_path))
    /\ IsDir(AbsPath(call.repo_path) \o "/.git")

\* The output path has no directory part, or one that exists
OutputDirExists ==
    Dirname(call.output) = "" \/ IsDir(AbsPath(Dirname(call.output)))

\* C21: main has returned 1 without invoking the analysis when the
\* repository path is no directory, has no .git directory, or the directory
\* of the output path does not exist; and it has returned 1 when the
\* analysis it invoked raised.
C21_MainReturnsOneOnFailure ==
    (pc = "exited" /\ call.kind = "main")
    => /\ ~(IsGitRepository /\ OutputDirExists)
          => /\ result = 1
             /\ callLog = <<>>
             /\ file_ids = <<>>
             /\ data = EmptyData
       /\ \A i \in 1..Len(callLog) : callLog[i].raised # None => result = 1

\* C21 witness: main has returned 1 for a git repository whose output
\* directory does not exist, without a call of the analysis
C21_Witness ==
    /\ pc = "exited"
    /\ call.repo_path = "/repo"
    /\ ".git/HEAD" \in disk
    /\ call.output = "/missing/data.json"
    /\ result = 1
    /\ callLog = <<>>

\* C22: for a git repository and an output path whose directory exists main
\* has run the analysis, written the document to the output path and
\* returned 0.
C22_MainSucceeds ==
    (pc # "cli" /\ call.kind = "main" /\ IsGitRepository /\ OutputDirExists)
    => /\ result = 0
       /\ \E i \in 1..Len(callLog) :
             callLog[i].kind = "analyze_repository" /\ callLog[i].raised = None

-----------------------------------------------------------------------------
(* Properties of a repeated analyze()                                      *)

\* The commitCount of every file of a document, by id
CommitCounts(files) ==
    {<<files[i].id, MetricOf(files[i], "commitCount", 0)>> : i \in 1..Len(files)}

\* The relationships of a document, in any order
RelationshipSet(rels) == {rels[i] : i \in 1..Len(rels)}

\* C28: the second analyze() on the same instance returns the relationships
\* of the first, with the same strengths, and, when git printed the same
\* log, the same commitCount for every file.
C28_SecondRunEqualsFirst ==
    (pc = "done" /\ call.kind = "analyze")
    => /\ RelationshipSet(data.relationships) = RelationshipSet(result.relationships)
       /\ call.gitlog = gitlog
          => CommitCounts(data.files) = CommitCounts(result.files)

====
